---- MODULE Spec2Model ----
(***************************************************************************)
(* Host-side orchestration of kmcuda (src/kmcuda.cpp): argument and        *)
(* topology validation (check_args, setup_devices), per-device memory      *)
(* planning and result copy-out (kmeans_cuda), and centroid seeding        *)
(* (kmeans_init_centroids).                                                *)
(*                                                                         *)
(* Three state machines share the module:                                  *)
(*   Spec        one invocation of kmeans_cuda, block by block;            *)
(*   SpecSearch  one K-means++ selection step (lines 119-157);             *)
(*   SpecAsync   the copies kmeans_init_centroids issues on one device     *)
(*               queue, with asynchronous copies landing later.            *)
(* Each leaves the variables of the other two at their idle values.        *)
(***************************************************************************)
EXTENDS Integers, Sequences, FiniteSets, TLC

VARIABLES
  \* ---- kmeans_cuda ----
  args,              \* the arguments of the call
  devices,           \* what cudaGetDeviceCount reports
  live,              \* the device ids on which cudaSetDevice succeeds
  pc,                \* position in kmeans_cuda
  result,            \* the value returned ("none" while running)
  devs,              \* std::vector<int> devs
  activated,         \* device ids cudaSetDevice was called on so far
  bufs,              \* the udevptrs lists, by name
  must_copy_result,  \* bool must_copy_result
  yinyang_groups,    \* uint32_t yinyang_groups
  transfers,         \* copies issued by kmeans_cuda itself, in order
  \* ---- K-means++ selection step ----
  spc, samples_size, host_dists, rnd, dist_sum, choice_approx, j, dist_sum2,
  reads, row,
  \* ---- kmeans_init_centroids copy queue ----
  apc, method, clusters, cur, issued, landed, upload, unsynced, hazards

pipeVars == <<args, devices, live, pc, result, devs, activated, bufs,
              must_copy_result, yinyang_groups, transfers>>
searchVars == <<spc, samples_size, host_dists, rnd, dist_sum, choice_approx, j,
                dist_sum2, reads, row>>
asyncVars == <<apc, method, clusters, cur, issued, landed, upload, unsynced,
               hazards>>
vars == <<pipeVars, searchVars, asyncVars>>

(***************************************************************************)
(* Bounds of the model.                                                    *)
(***************************************************************************)
MaxDevices == 2      \* cudaGetDeviceCount ranges over 0..MaxDevices (well below
                     \* 32, where 1u << devices of line 33 stops being defined)

(***************************************************************************)
(* Integer widths.  A uint32_t or size_t value is a pair <<hi, lo>> of     *)
(* base-2^16 limbs, value hi * 2^16 + lo, so that UINT32_MAX and products  *)
(* beyond 2^31 can be written; a uint32_t has hi < 2^16.                   *)
(***************************************************************************)
Limb == 2^16
Byte == 2^8

U(n) == <<n \div Limb, n % Limb>>
UINT32_MAX == <<Limb - 1, Limb - 1>>

WNorm(hi, lo) == <<hi + lo \div Limb, lo % Limb>>
WLt(a, b) == a[1] < b[1] \/ (a[1] = b[1] /\ a[2] < b[2])
WLe(a, b) == ~WLt(b, a)
WAdd(a, b) == WNorm(a[1] + b[1], a[2] + b[2])
\* a * f for a 16-bit f, exact; f is split in bytes to keep every partial
\* product below 2^31
WMul16(a, f) ==
  LET fh == f \div Byte
      fl == f % Byte
      t  == a[2] * fh
  IN  WNorm(a[1] * f + t \div Byte, (t % Byte) * Byte + a[2] * fl)
\* conversion to uint32_t: the low 32 bits
Wrap32(a) == <<a[1] % Limb, a[2]>>
\* a value known to be below 2^31, as a number
ToInt(a) == a[1] * Limb + a[2]

(***************************************************************************)
(* float arguments: a multiple of 1/Den, or NaN.  Every comparison with    *)
(* NaN is false, as in C++.                                                *)
(***************************************************************************)
Den == 2 * 2
F(q) == [nan |-> FALSE, q |-> q]
NaN == [nan |-> TRUE, q |-> 0]
FLt(x, q) == ~x.nan /\ x.q < q
FGt(x, q) == ~x.nan /\ x.q > q

kmcudaSuccess == "kmcudaSuccess"
kmcudaInvalidArguments == "kmcudaInvalidArguments"
kmcudaNoSuchDevice == "kmcudaNoSuchDevice"
kmcudaRuntimeError == "kmcudaRuntimeError"
kmcudaMemoryAllocationFailure == "kmcudaMemoryAllocationFailure"
kmcudaMemoryCopyError == "kmcudaMemoryCopyError"

(***************************************************************************)
(* check_args, lines 15-46.  ndev is what cudaGetDeviceCount stores in     *)
(* `devices`; samples, centroids, assignments are TRUE for non-null.       *)
(***************************************************************************)
check_args_late_zero(tolerance, yinyang_t, n_samples, features_size, clusters_size, device, samples, centroids, assignments, ndev) ==
  IF WLt(clusters_size, U(2)) \/ clusters_size = UINT32_MAX
    THEN kmcudaInvalidArguments
  ELSE IF features_size = 0 THEN kmcudaInvalidArguments
  ELSE IF WLt(n_samples, clusters_size) THEN kmcudaInvalidArguments
  ELSE IF device # 0 /\ device > 2^ndev THEN kmcudaNoSuchDevice
  ELSE IF ~samples \/ ~centroids \/ ~assignments THEN kmcudaInvalidArguments
  ELSE IF device = 0 THEN kmcudaNoSuchDevice
  ELSE IF FLt(tolerance, 0) \/ FGt(tolerance, Den) THEN kmcudaInvalidArguments
  ELSE IF FLt(yinyang_t, 0) \/ FGt(yinyang_t, Den \div 2)
    THEN kmcudaInvalidArguments
  ELSE kmcudaSuccess

check_args_late_range(tolerance, yinyang_t, n_samples, features_size, clusters_size, device, samples, centroids, assignments, ndev) ==
  IF WLt(clusters_size, U(2)) \/ clusters_size = UINT32_MAX
    THEN kmcudaInvalidArguments
  ELSE IF features_size = 0 THEN kmcudaInvalidArguments
  ELSE IF WLt(n_samples, clusters_size) THEN kmcudaInvalidArguments
  ELSE IF device = 0 THEN kmcudaNoSuchDevice
  ELSE IF ~samples \/ ~centroids \/ ~assignments THEN kmcudaInvalidArguments
  ELSE IF FLt(tolerance, 0) \/ FGt(tolerance, Den) THEN kmcudaInvalidArguments
  ELSE IF FLt(yinyang_t, 0) \/ FGt(yinyang_t, Den \div 2)
    THEN kmcudaInvalidArguments
  ELSE IF device > 2^ndev THEN kmcudaNoSuchDevice
  ELSE kmcudaSuccess

check_args(tolerance, yinyang_t, n_samples, features_size, clusters_size, device, samples, centroids, assignments, ndev) ==
  IF WLt(clusters_size, U(2)) \/ clusters_size = UINT32_MAX
    THEN kmcudaInvalidArguments
  ELSE IF features_size = 0 THEN kmcudaInvalidArguments
  ELSE IF WLt(n_samples, clusters_size) THEN kmcudaInvalidArguments
  ELSE IF device = 0 THEN kmcudaNoSuchDevice
  ELSE IF device > 2^ndev THEN kmcudaNoSuchDevice
  ELSE IF ~samples \/ ~centroids \/ ~assignments THEN kmcudaInvalidArguments
  ELSE IF FLt(tolerance, 0) \/ FGt(tolerance, Den) THEN kmcudaInvalidArguments
  ELSE IF FLt(yinyang_t, 0) \/ FGt(yinyang_t, Den \div 2)
    THEN kmcudaInvalidArguments
  ELSE kmcudaSuccess

(***************************************************************************)
(* setup_devices, lines 48-61.  cudaSetDevice(dev) succeeds exactly on the *)
(* ids in alive (a subset of 0..devices-1: the runtime rejects any id at   *)
(* or beyond the device count).                                            *)
(***************************************************************************)
cudaSetDevice(dev, alive) == dev \in alive

RECURSIVE setup_devices_loop_nopop(_, _, _)
setup_devices_loop_nopop(device, dev, acc) ==
  IF device = 0 THEN acc
  ELSE setup_devices_loop_nopop(device \div 2, dev + 1,
         IF device % 2 = 1 THEN Append(acc, dev) ELSE acc)

setup_devices_nopop(device, alive) == setup_devices_loop_nopop(device, 0, <<>>)

RECURSIVE setup_devices_loop(_, _, _, _)
setup_devices_loop(device, dev, acc, alive) ==
  IF device = 0 THEN acc
  ELSE setup_devices_loop(device \div 2, dev + 1,
         IF device % 2 = 1 /\ cudaSetDevice(dev, alive)
           THEN Append(acc, dev) ELSE acc,
         alive)

setup_devices(device, alive) == setup_devices_loop(device, 0, <<>>, alive)

\* the ids setup_devices calls cudaSetDevice on: every set bit of the selector
RECURSIVE SelectorBits(_, _)
SelectorBits(device, dev) ==
  IF device = 0 THEN {}
  ELSE (IF device % 2 = 1 THEN {dev} ELSE {}) \cup SelectorBits(device \div 2, dev + 1)

(***************************************************************************)
(* Memory planning of kmeans_cuda, lines 181-232.  A udevptrs list is a    *)
(* sequence of buffers; owned = FALSE is the `true` second argument of     *)
(* emplace_back (the list must not free the pointer).  ptr names what the  *)
(* pointer is: a caller's argument, a fresh cudaMalloc, or another list.   *)
(* dev is the device the memory lives on, size the element count.          *)
(***************************************************************************)
BufNames == {"device_samples", "device_centroids", "device_assignments",
             "device_assignments_prev", "device_ccounts",
             "device_assignments_yy", "device_bounds_yy", "device_drifts_yy",
             "device_passed_yy", "device_centroids_yy"}

Buf(owned, ptr, dev, size) == [owned |-> owned, ptr |-> ptr, dev |-> dev, size |-> size]

\* CUMALLOC(dest, size): FOR_ALL_DEVS(CUMALLOC_ONE(dest, size))
CUMALLOC(ds, size) == [k \in 1..Len(ds) |-> Buf(TRUE, "cudaMalloc", ds[k], size)]

\* lines 181-188
plan_samples(ds, device_ptrs, size) ==
  IF device_ptrs < 0 THEN CUMALLOC(ds, size)
  ELSE <<Buf(FALSE, "samples", device_ptrs, size)>>

\* lines 192-199 and 201-207: alias the caller's pointer on device_ptrs
plan_output(ds, device_ptrs, caller, size) ==
  [k \in 1..Len(ds) |->
     IF ds[k] = device_ptrs THEN Buf(FALSE, caller, ds[k], size)
     ELSE Buf(TRUE, "cudaMalloc", ds[k], size)]

\* lines 191-199: must_copy_result after the loop
must_copy_primary(ds, device_ptrs) == ds[1] # device_ptrs

must_copy(ds, device_ptrs) == \A k \in 1..Len(ds) : ds[k] # device_ptrs

\* a * b in size_t, for operands whose product stays below 2^47
WMul(a, b) ==
  LET t == WMul16(a, b[1])
  IN  WAdd(WMul16(a, b[2]), <<t[1] * Limb + t[2], 0>>)

\* line 213: uint32_t yinyang_groups = yinyang_t * clusters_size
groups_of(yinyang_t, clusters_size) == (yinyang_t.q * ToInt(clusters_size)) \div Den

\* line 223: the product is taken in 32 bits (uint32_t * uint16_t), then
\* widened to size_t
yyc_size_of(groups, features_size) == Wrap32(WMul16(U(groups), features_size))

\* line 224: yyc_size + (clusters_size + yinyang_groups) <= samples_size;
\* the inner sum is a uint32_t sum, the outer one a size_t sum
yy_reuse(groups, features_size, clusters_size, n_samples) ==
  WLe(WAdd(yyc_size_of(groups, features_size),
           Wrap32(WAdd(clusters_size, U(groups)))),
      n_samples)

\* lines 225-231
plan_centroids_yy(ds, passed, groups, features_size, clusters_size, n_samples) ==
  IF yy_reuse(groups, features_size, clusters_size, n_samples)
    THEN [k \in 1..Len(passed) |->
            Buf(FALSE, "device_passed_yy", passed[k].dev,
                yyc_size_of(groups, features_size))]
    ELSE CUMALLOC(ds, yyc_size_of(groups, features_size))

NoBufs == [n \in BufNames |-> <<>>]
HasOwned(list) == \E k \in 1..Len(list) : list[k].owned

Return(code) == result' = code /\ pc' = "done"
Goto(label) == pc' = label /\ UNCHANGED result

Xfer(op, dst, dstDev, src, srcDev, count, ok) ==
  [op |-> op, dst |-> dst, dstDev |-> dstDev, src |-> src, srcDev |-> srcDev,
   count |-> count, ok |-> ok]

(***************************************************************************)
(* kmeans_cuda, lines 166-277, one action per block.  A CUDA call that may *)
(* fail (cudaMalloc, cudaMemcpy*, cudaMemGetInfo) and a collaborator that  *)
(* may return an error choose their outcome with \E.                       *)
(***************************************************************************)
\* lines 174-176
CheckArgs ==
  /\ pc = "check_args"
  /\ LET r == check_args(args.tolerance, args.yinyang_t, args.samples_size,
                         args.features_size, args.clusters_size, args.device,
                         args.samples, args.centroids, args.assignments, devices)
     IN  IF r # kmcudaSuccess THEN Return(r) ELSE Goto("setup_devices")
  /\ UNCHANGED <<args, devices, live, devs, activated, bufs, must_copy_result,
                 yinyang_groups, transfers, searchVars, asyncVars>>

\* lines 177-180
SetupDevices ==
  /\ pc = "setup_devices"
  /\ devs' = setup_devices(args.device, live)
  /\ activated' = SelectorBits(args.device, 0)
  /\ IF devs' = <<>> THEN Return(kmcudaNoSuchDevice) ELSE Goto("plan_samples")
  /\ UNCHANGED <<args, devices, live, bufs, must_copy_result, yinyang_groups,
                 transfers, searchVars, asyncVars>>

\* lines 181-188
PlanSamples ==
  /\ pc = "plan_samples"
  /\ LET size == WMul16(args.samples_size, args.features_size)
         list == plan_samples(devs, args.device_ptrs, size)
     IN  \E outcome \in {"ok", "malloc", "memcpy"} :
           /\ outcome # "ok" => args.device_ptrs < 0
           /\ IF outcome = "malloc"
                THEN /\ Return(kmcudaMemoryAllocationFailure)
                     /\ UNCHANGED <<bufs, transfers>>
                ELSE /\ bufs' = [bufs EXCEPT !["device_samples"] = list]
                     /\ transfers' =
                          IF args.device_ptrs < 0
                            THEN Append(transfers,
                                   Xfer("cudaMemcpyAsyncHostToDevice",
                                        "device_samples", devs[1], "samples", -1,
                                        size, outcome = "ok"))
                            ELSE transfers
                     /\ IF outcome = "memcpy" THEN Return(kmcudaMemoryCopyError)
                        ELSE Goto("plan_centroids")
  /\ UNCHANGED <<args, devices, live, devs, activated, must_copy_result,
                 yinyang_groups, searchVars, asyncVars>>

\* lines 189-199
PlanCentroids ==
  /\ pc = "plan_centroids"
  /\ LET list == plan_output(devs, args.device_ptrs, "centroids",
                             WMul16(args.clusters_size, args.features_size))
     IN  \E ok \in BOOLEAN :
           /\ ~ok => HasOwned(list)
           /\ IF ok
                THEN /\ bufs' = [bufs EXCEPT !["device_centroids"] = list]
                     /\ must_copy_result' = must_copy(devs, args.device_ptrs)
                     /\ Goto("plan_assignments")
                ELSE /\ Return(kmcudaMemoryAllocationFailure)
                     /\ UNCHANGED <<bufs, must_copy_result>>
  /\ UNCHANGED <<args, devices, live, devs, activated, yinyang_groups,
                 transfers, searchVars, asyncVars>>

\* lines 200-207
PlanAssignments ==
  /\ pc = "plan_assignments"
  /\ LET list == plan_output(devs, args.device_ptrs, "assignments",
                             args.samples_size)
     IN  \E ok \in BOOLEAN :
           /\ ~ok => HasOwned(list)
           /\ IF ok
                THEN /\ bufs' = [bufs EXCEPT !["device_assignments"] = list]
                     /\ Goto("plan_scratch")
                ELSE /\ Return(kmcudaMemoryAllocationFailure)
                     /\ UNCHANGED bufs
  /\ UNCHANGED <<args, devices, live, devs, activated, must_copy_result,
                 yinyang_groups, transfers, searchVars, asyncVars>>

\* lines 208-211
PlanScratch ==
  /\ pc = "plan_scratch"
  /\ \E ok \in BOOLEAN :
       IF ok
         THEN /\ bufs' = [bufs EXCEPT
                    !["device_assignments_prev"] = CUMALLOC(devs, args.samples_size),
                    !["device_ccounts"] = CUMALLOC(devs, args.clusters_size)]
              /\ Goto("plan_yinyang")
         ELSE /\ Return(kmcudaMemoryAllocationFailure)
              /\ UNCHANGED bufs
  /\ UNCHANGED <<args, devices, live, devs, activated, must_copy_result,
                 yinyang_groups, transfers, searchVars, asyncVars>>

\* lines 213-232
PlanYinyang ==
  /\ pc = "plan_yinyang"
  /\ yinyang_groups' = groups_of(args.yinyang_t, args.clusters_size)
  /\ LET g == yinyang_groups'
         centroids_size == WMul16(args.clusters_size, args.features_size)
         passed == CUMALLOC(devs, args.samples_size)
     IN  IF g >= 1
           THEN \E ok \in BOOLEAN :
                  IF ok
                    THEN /\ bufs' = [bufs EXCEPT
                               !["device_assignments_yy"] =
                                  CUMALLOC(devs, args.clusters_size),
                               !["device_bounds_yy"] =
                                  CUMALLOC(devs, WMul(args.samples_size, U(g + 1))),
                               !["device_drifts_yy"] =
                                  CUMALLOC(devs, WAdd(centroids_size, args.clusters_size)),
                               !["device_passed_yy"] = passed,
                               !["device_centroids_yy"] =
                                  plan_centroids_yy(devs, passed, g, args.features_size,
                                                    args.clusters_size, args.samples_size)]
                         /\ Goto("setup")
                    ELSE /\ Return(kmcudaMemoryAllocationFailure)
                         /\ UNCHANGED bufs
           ELSE /\ Goto("setup")
                /\ UNCHANGED bufs
  /\ UNCHANGED <<args, devices, live, devs, activated, must_copy_result,
                 transfers, searchVars, asyncVars>>

\* lines 234-240: print_memory_stats (lines 63-72) when verbosity > 1, then
\* the kmeans_cuda_setup collaborator
SetupKernels ==
  /\ pc = "setup"
  /\ \E outcome \in {"ok", "stats", "setup"} :
       /\ outcome = "stats" => args.verbosity > 1
       /\ IF outcome = "ok" THEN Goto("init_centroids")
          ELSE Return(kmcudaRuntimeError)
  /\ UNCHANGED <<args, devices, live, devs, activated, bufs, must_copy_result,
                 yinyang_groups, transfers, searchVars, asyncVars>>

\* lines 241-248: the call of kmeans_init_centroids.  It indexes samples[devi]
\* for every devi < devs.size(); when device_samples is shorter than devs that
\* access is outside the vector, undefined behaviour: the call may crash, fail
\* or return success.
InitCentroids ==
  /\ pc = "init_centroids"
  /\ \E outcome \in {"ok", "error", "crash"} :
       /\ outcome = "crash" => Len(bufs["device_samples"]) < Len(devs)
       /\ IF outcome = "ok" THEN Goto("refine")
          ELSE IF outcome = "error" THEN Return(kmcudaMemoryCopyError)
          ELSE pc' = "crashed" /\ UNCHANGED result
  /\ UNCHANGED <<args, devices, live, devs, activated, bufs, must_copy_result,
                 yinyang_groups, transfers, searchVars, asyncVars>>

\* lines 249-257: the kmeans_cuda_yy collaborator
Refine ==
  /\ pc = "refine"
  /\ \E ok \in BOOLEAN :
       IF ok THEN Goto("materialize") ELSE Return(kmcudaRuntimeError)
  /\ UNCHANGED <<args, devices, live, devs, activated, bufs, must_copy_result,
                 yinyang_groups, transfers, searchVars, asyncVars>>

\* lines 258-277
Materialize ==
  /\ pc = "materialize"
  /\ LET op == IF args.device_ptrs < 0 THEN "cudaMemcpyDeviceToHost"
               ELSE "cudaMemcpyPeer"
         c(ok) == Xfer(op, "centroids", args.device_ptrs, "device_centroids",
                       devs[1], WMul16(args.clusters_size, args.features_size), ok)
         a(ok) == Xfer(op, "assignments", args.device_ptrs, "device_assignments",
                       devs[1], args.samples_size, ok)
     IN  IF must_copy_result
           THEN \E ok1, ok2 \in BOOLEAN :
                  /\ ~ok1 => ok2
                  /\ transfers' =
                       IF ok1 THEN transfers \o <<c(TRUE), a(ok2)>>
                       ELSE Append(transfers, c(FALSE))
                  /\ IF ok1 /\ ok2 THEN Return(kmcudaSuccess)
                     ELSE Return(kmcudaMemoryCopyError)
           ELSE /\ Return(kmcudaSuccess)
                /\ UNCHANGED transfers
  /\ UNCHANGED <<args, devices, live, devs, activated, bufs, must_copy_result,
                 yinyang_groups, searchVars, asyncVars>>

(***************************************************************************)
(* One K-means++ selection step of kmeans_init_centroids, lines 114-157.   *)
(* Distances are exact non-negative integers; rand() ranges over           *)
(* 0..RandMax, so choice = rnd / RandMax, and `dist_sum2 < choice_sum`     *)
(* is decided exactly, as dist_sum2 * RandMax < rnd * dist_sum.             *)
(* host_dists[k] of the code is host_dists[k + 1] here.                    *)
(***************************************************************************)
RandMax == 4         \* rand() ranges over 0..RandMax (RAND_MAX, scaled down)
MaxDist == 1         \* a per-sample distance ranges over 0..MaxDist
LINEAR_LIMIT == 100  \* line 130: choice_approx < 100

SampleSizes == {2, 3, LINEAR_LIMIT, 2 * LINEAR_LIMIT}

\* host_dists[lo-1] + ... + host_dists[hi-1] of the code
RECURSIVE SumRange(_, _, _)
SumRange(h, lo, hi) ==
  IF lo > hi THEN 0
  ELSE IF lo = hi THEN h[lo]
  ELSE LET mid == (lo + hi) \div 2
       IN  SumRange(h, lo, mid) + SumRange(h, mid + 1, hi)

\* the sum of the first n distances: the reduction of lines 138-140
SumTo(h, n) == SumRange(h, 1, n)

below(s, r, total) == s * RandMax < r * total

Least(S) == CHOOSE x \in S : \A y \in S : x <= y
Greatest(S) == CHOOSE x \in S : \A y \in S : x >= y

\* for (j = start; j < samples_size && dist_sum2 < choice_sum; j++)
\*   dist_sum2 += host_dists[j];                     lines 132-134, 142-144
\* When the test is made at j = jj, dist_sum2 is s plus the distances at
\* start..jj-1; the loop leaves at the first jj where the test fails.
scan_forward(h, n, start, s, r, total) ==
  LET at(jj) == s + SumRange(h, start + 1, jj)
      jend == Least({jj \in start..n : ~(jj < n /\ below(at(jj), r, total))})
  IN  [j |-> jend, sum |-> at(jend)]

\* for (j = choice_approx; j > 1 && dist_sum2 >= choice_sum; j--)
\*   dist_sum2 -= host_dists[j];                     lines 146-148
\* When the test is made at j = jj, dist_sum2 is s minus the distances at
\* jj+1..start (the first one subtracted is host_dists[start] itself); the
\* loop leaves at the first jj, counting down, where the test fails.
scan_backward(h, start, s, r, total) ==
  LET at(jj) == s - SumRange(h, jj + 2, start + 1)
      jend == Greatest({jj \in 0..start : ~(jj > 1 /\ ~below(at(jj), r, total))})
  IN  [j |-> jend, sum |-> at(jend)]

\* uint32_t j - 1
minus_one(jj) == IF jj = 0 THEN UINT32_MAX ELSE U(jj - 1)

\* the distance vectors tried: a on [0, p), b on [p, q), c from q on
Cuts(n) == {0, 1, n \div 2, n - 1, n}
Dists(n, p, q, a, b, c) ==
  [k \in 1..n |-> IF k - 1 < p THEN a ELSE IF k - 1 < q THEN b ELSE c]

SearchIdle ==
  /\ spc = "idle" /\ samples_size = 0 /\ host_dists = <<>> /\ rnd = 0
  /\ dist_sum = 0 /\ choice_approx = 0 /\ j = 0 /\ dist_sum2 = 0
  /\ reads = {} /\ row = U(0)

\* lines 115-119: kmeans_cuda_plus_plus fills host_dists and dist_sum
Score ==
  /\ spc = "score"
  /\ dist_sum' = SumTo(host_dists, samples_size)
  /\ spc' = "draw"
  /\ UNCHANGED <<samples_size, host_dists, rnd, choice_approx, j, dist_sum2,
                 reads, row, pipeVars, asyncVars>>

\* lines 120-129: the draw, and the scan whose result the branches overwrite
Draw ==
  /\ spc = "draw"
  /\ \E r \in 0..RandMax :
       /\ rnd' = r
       /\ choice_approx' = (r * samples_size) \div RandMax
       /\ LET f == scan_forward(host_dists, samples_size, 0, 0, r, dist_sum)
          IN  j' = f.j /\ dist_sum2' = f.sum /\ reads' = 0..(f.j - 1)
  /\ spc' = "branch"
  /\ UNCHANGED <<samples_size, host_dists, dist_sum, row, pipeVars, asyncVars>>

\* lines 130-134
Linear ==
  /\ spc = "branch"
  /\ choice_approx < LINEAR_LIMIT
  /\ LET f == scan_forward(host_dists, samples_size, 0, 0, rnd, dist_sum)
     IN  j' = f.j /\ dist_sum2' = f.sum /\ reads' = reads \cup 0..(f.j - 1)
  /\ spc' = "select"
  /\ UNCHANGED <<samples_size, host_dists, rnd, dist_sum, choice_approx, row,
                 pipeVars, asyncVars>>

\* lines 136-144
Forward ==
  /\ spc = "branch"
  /\ choice_approx >= LINEAR_LIMIT
  /\ LET pre == SumTo(host_dists, choice_approx)
     IN  /\ below(pre, rnd, dist_sum)
         /\ LET f == scan_forward(host_dists, samples_size, choice_approx, pre,
                                  rnd, dist_sum)
            IN  j' = f.j /\ dist_sum2' = f.sum /\ reads' = reads \cup 0..(f.j - 1)
  /\ spc' = "select"
  /\ UNCHANGED <<samples_size, host_dists, rnd, dist_sum, choice_approx, row,
                 pipeVars, asyncVars>>

\* lines 136-141 and 145-150.  With choice_approx = samples_size the first
\* subtraction reads host_dists[samples_size], one past the new float[] of
\* line 107: the value read is arbitrary.
Backward ==
  /\ spc = "branch"
  /\ choice_approx >= LINEAR_LIMIT
  /\ LET pre == SumTo(host_dists, choice_approx)
     IN  /\ ~below(pre, rnd, dist_sum)
         /\ \E garbage \in 0..MaxDist :
              LET b == scan_backward(Append(host_dists, garbage), choice_approx,
                                     pre, rnd, dist_sum)
              IN  /\ j' = b.j + 1
                  /\ dist_sum2' = b.sum
                  /\ reads' = reads \cup 0..(choice_approx - 1)
                                    \cup (b.j + 1)..choice_approx
  /\ spc' = "select"
  /\ UNCHANGED <<samples_size, host_dists, rnd, dist_sum, choice_approx, row,
                 pipeVars, asyncVars>>

\* lines 152-157: assert(j > 0) aborts a debug build; an NDEBUG build goes on
\* and copies sample row j - 1, computed in uint32_t
Select ==
  /\ spc = "select"
  /\ \E ndebug \in BOOLEAN :
       IF j > 0 \/ ndebug
         THEN row' = minus_one(j) /\ spc' = "selected"
         ELSE row' = row /\ spc' = "assert_failed"
  /\ UNCHANGED <<samples_size, host_dists, rnd, dist_sum, choice_approx, j,
                 dist_sum2, reads, pipeVars, asyncVars>>

(***************************************************************************)
(* The copies of one device queue from the sample upload (line 185) to the *)
(* return of kmeans_init_centroids (line 163).  FOR_ALL_DEVSI issues the   *)
(* same copies on every device, so one queue stands for each.  A copy      *)
(* issued asynchronously lands at some later step (Land), in issue order,  *)
(* and at the latest at the next blocking operation, which drains the      *)
(* queue.  Centroid row k is written by the k-th centroid copy, so rows    *)
(* 0..landed-1 are in place and rows landed..issued-1 are still in flight. *)
(* unsynced counts the asynchronous copies issued since the last blocking  *)
(* operation; hazards collects the reads of a region whose copy is still   *)
(* in flight.                                                              *)
(***************************************************************************)
THROTTLE == 1000     \* line 88: (c + 1) % 1000 == 0
MaxClusters == 3     \* small clusters_size values range over 2..MaxClusters

ClusterSizes == (2..MaxClusters) \cup {THROTTLE + 1}

AsyncIdle ==
  /\ apc = "idle" /\ method = "none" /\ clusters = 0 /\ cur = 0 /\ issued = 0
  /\ landed = 0 /\ upload = "none" /\ unsynced = 0 /\ hazards = {}

SamplesRead == IF upload = "pending" THEN {"samples read during upload"} ELSE {}

\* lines 183-188: CUMEMCPY_H2D_ASYNC when the samples are on the host
Upload ==
  /\ apc = "upload"
  /\ \E host \in BOOLEAN : upload' = IF host THEN "pending" ELSE "none"
  /\ apc' = "setup"
  /\ UNCHANGED <<method, clusters, cur, issued, landed, unsynced, hazards,
                 pipeVars, searchVars>>

\* lines 237-240: kmeans_cuda_setup uploads the per-device parameters with
\* blocking copies, which drains the queue
KernelSetup ==
  /\ apc = "setup"
  /\ upload' = IF upload = "pending" THEN "landed" ELSE upload
  /\ apc' = IF method = "kmcudaInitMethodRandom" THEN "random" ELSE "plusplus"
  /\ UNCHANGED <<method, clusters, cur, issued, landed, unsynced, hazards,
                 pipeVars, searchVars>>

\* lines 87-100: one iteration of the uniform-random loop, c = cur
RandomCopy ==
  /\ apc = "random"
  /\ cur < clusters
  /\ hazards' = hazards \cup SamplesRead
  /\ issued' = cur + 1
  /\ IF (cur + 1) % THROTTLE = 0 \/ cur = clusters - 1
       THEN landed' = cur + 1 /\ unsynced' = 0       \* CUMEMCPY_D2D
       ELSE landed' = landed /\ unsynced' = unsynced + 1  \* ..._ASYNC
  /\ cur' = cur + 1
  /\ UNCHANGED <<apc, method, clusters, upload, pipeVars, searchVars>>

\* lines 104-107: centroid row 0, asynchronously
PlusFirst ==
  /\ apc = "plusplus"
  /\ hazards' = hazards \cup SamplesRead
  /\ issued' = 1
  /\ unsynced' = unsynced + 1
  /\ cur' = 1
  /\ apc' = "score"
  /\ UNCHANGED <<method, clusters, landed, upload, pipeVars, searchVars>>

\* lines 115-118: kmeans_cuda_plus_plus for step i = cur reads the samples and
\* centroid rows 0..i-1, and returns the distances to the host: a barrier
PlusScore ==
  /\ apc = "score"
  /\ cur < clusters
  /\ hazards' = hazards \cup SamplesRead
                        \cup (IF landed < cur
                                THEN {"centroid row read while its copy is in flight"}
                                ELSE {})
  /\ landed' = issued
  /\ unsynced' = 0
  /\ apc' = "copy"
  /\ UNCHANGED <<method, clusters, cur, issued, upload, pipeVars, searchVars>>

\* lines 153-157: centroid row i, asynchronously; then i++
PlusCopy ==
  /\ apc = "copy"
  /\ hazards' = hazards \cup SamplesRead
  /\ issued' = cur + 1
  /\ unsynced' = unsynced + 1
  /\ cur' = cur + 1
  /\ apc' = "score"
  /\ UNCHANGED <<method, clusters, landed, upload, pipeVars, searchVars>>

\* lines 162-163
InitReturn ==
  /\ apc \in {"random", "score"}
  /\ cur = clusters
  /\ hazards' = hazards \cup (IF landed < issued
                                THEN {"returned with a centroid copy in flight"}
                                ELSE {})
  /\ apc' = "returned"
  /\ UNCHANGED <<method, clusters, cur, issued, landed, upload, unsynced,
                 pipeVars, searchVars>>

\* the device completes the oldest copy in flight
Land ==
  /\ apc \notin {"idle", "returned"}
  /\ landed < issued
  /\ landed' = landed + 1
  /\ UNCHANGED unsynced
  /\ UNCHANGED <<apc, method, clusters, cur, issued, upload, hazards,
                 pipeVars, searchVars>>

\* the device completes the sample upload
UploadLand ==
  /\ apc \notin {"idle", "returned"}
  /\ upload = "pending"
  /\ upload' = "landed"
  /\ UNCHANGED <<apc, method, clusters, cur, issued, landed, unsynced,
                 hazards, pipeVars, searchVars>>

(***************************************************************************)
(* Initial states and specifications.                                      *)
(***************************************************************************)
PipeIdle ==
  /\ args = <<>> /\ devices = 0 /\ live = {} /\ pc = "idle" /\ result = "none"
  /\ devs = <<>> /\ activated = {} /\ bufs = NoBufs /\ must_copy_result = TRUE
  /\ yinyang_groups = 0 /\ transfers = <<>>

PipeStart ==
  /\ pc = "check_args" /\ result = "none" /\ devs = <<>> /\ activated = {}
  /\ bufs = NoBufs /\ must_copy_result = TRUE /\ yinyang_groups = 0
  /\ transfers = <<>>

Pointers == {<<TRUE, TRUE, TRUE>>, <<FALSE, TRUE, TRUE>>, <<TRUE, FALSE, TRUE>>,
             <<TRUE, TRUE, FALSE>>}

\* calls that exercise the validation rules, alone and together
InitArgs ==
  /\ \E ndev \in 0..MaxDevices : devices = ndev /\ live \in SUBSET (0..ndev - 1)
  /\ \E tol \in {F(-1), F(2), F(Den + 1), NaN},
        yy \in {F(-1), F(1), F(Den - 1)},
        ns \in {U(3), U(8)},
        fs \in {0, 2},
        cs \in {U(1), U(4), UINT32_MAX},
        dv \in 0..2^(MaxDevices + 1),
        ptrs \in Pointers :
       args = [kmpp |-> FALSE, tolerance |-> tol, yinyang_t |-> yy,
               samples_size |-> ns, features_size |-> fs, clusters_size |-> cs,
               device |-> dv, verbosity |-> 0, device_ptrs |-> -1,
               samples |-> ptrs[1], centroids |-> ptrs[2],
               assignments |-> ptrs[3]]
  /\ PipeStart

\* <<samples_size, features_size, clusters_size>> of the valid calls
Shapes == {<<U(7), 2, U(4)>>, <<U(8), 2, U(4)>>,
           <<U(300000), Limb - 1, U(131076)>>}

\* valid calls, over device selections, location hints and buffer geometries
InitPlan ==
  /\ devices = MaxDevices
  /\ live \in SUBSET (0..MaxDevices - 1)
  /\ \E shape \in Shapes,
        yy \in {F(0), F(1), F(2)},
        dv \in 1..(2^MaxDevices - 1),
        hint \in -1..MaxDevices,
        verbose \in {0, 2},
        kmpp \in BOOLEAN :
       args = [kmpp |-> kmpp, tolerance |-> F(0), yinyang_t |-> yy,
               samples_size |-> shape[1], features_size |-> shape[2],
               clusters_size |-> shape[3], device |-> dv, verbosity |-> verbose,
               device_ptrs |-> hint, samples |-> TRUE, centroids |-> TRUE,
               assignments |-> TRUE]
  /\ PipeStart

Init == (InitArgs \/ InitPlan) /\ SearchIdle /\ AsyncIdle

Next ==
  \/ CheckArgs \/ SetupDevices \/ PlanSamples \/ PlanCentroids
  \/ PlanAssignments \/ PlanScratch \/ PlanYinyang \/ SetupKernels
  \/ InitCentroids \/ Refine \/ Materialize

Spec == Init /\ [][Next]_vars

InitSearch ==
  /\ PipeIdle /\ AsyncIdle
  /\ spc = "score"
  /\ samples_size \in SampleSizes
  /\ \E p \in Cuts(samples_size), q \in Cuts(samples_size),
        a \in 0..MaxDist, b \in 0..MaxDist, c \in 0..MaxDist :
       p <= q /\ host_dists = Dists(samples_size, p, q, a, b, c)
  /\ rnd = 0 /\ dist_sum = 0 /\ choice_approx = 0 /\ j = 0 /\ dist_sum2 = 0
  /\ reads = {} /\ row = U(0)

NextSearch == Score \/ Draw \/ Linear \/ Forward \/ Backward \/ Select

SpecSearch == InitSearch /\ [][NextSearch]_vars

InitAsync ==
  /\ PipeIdle /\ SearchIdle
  /\ apc = "upload"
  /\ method \in {"kmcudaInitMethodRandom", "kmcudaInitMethodPlusPlus"}
  /\ clusters \in ClusterSizes
  /\ cur = 0 /\ issued = 0 /\ landed = 0 /\ upload = "none" /\ unsynced = 0
  /\ hazards = {}

NextAsync ==
  \/ Upload \/ KernelSetup \/ RandomCopy \/ PlusFirst \/ PlusScore \/ PlusCopy
  \/ InitReturn \/ Land \/ UploadLand

SpecAsync == InitAsync /\ [][NextAsync]_vars

(***************************************************************************)
(* Properties of check_args and setup_devices (under Spec).                *)
(***************************************************************************)
ShapeViolated ==
  \/ WLt(args.clusters_size, U(2)) \/ args.clusters_size = UINT32_MAX
  \/ args.features_size = 0
  \/ WLt(args.samples_size, args.clusters_size)

NullPointer == ~args.samples \/ ~args.centroids \/ ~args.assignments

\* tolerance < 0 or > 1, accelerated fraction < 0 or > 0.5
RangeViolated ==
  \/ FLt(args.tolerance, 0) \/ FGt(args.tolerance, Den)
  \/ FLt(args.yinyang_t, 0) \/ FGt(args.yinyang_t, Den \div 2)

AnyViolation == ShapeViolated \/ NullPointer \/ RangeViolated

Untouched == activated = {} /\ bufs = NoBufs /\ transfers = <<>>

\* C1, as stated: a call with device selector 0 returns NoSuchDevice whatever
\* the other arguments are.
C1_ZeroSelectorFirst ==
  (pc = "done" /\ args.device = 0) => result = kmcudaNoSuchDevice

\* C1, amended: a call with device selector 0 returns InvalidArguments when
\* clusters_size, features_size or samples_size breaks its rule, and
\* NoSuchDevice otherwise, whatever the pointers, the tolerance and the
\* accelerated fraction are.
C1_ZeroSelectorAfterShape ==
  (pc = "done" /\ args.device = 0) =>
     result = IF ShapeViolated THEN kmcudaInvalidArguments ELSE kmcudaNoSuchDevice

C1_Witness ==
  /\ pc = "done" /\ args.device = 0 /\ ~ShapeViolated
  /\ NullPointer /\ RangeViolated
  /\ result = kmcudaNoSuchDevice

\* C2, as stated: a call with a non-zero selector that breaks a validation
\* rule returns InvalidArguments, before any device is activated and before
\* any buffer is allocated.
C2_ViolationIsInvalidArguments ==
  (pc = "done" /\ args.device # 0 /\ AnyViolation) =>
     result = kmcudaInvalidArguments /\ Untouched

\* C2, amended: such a call returns before any device is activated and any
\* buffer is allocated; it returns InvalidArguments when clusters_size,
\* features_size or samples_size breaks its rule or the selector is at most
\* 2^devices, and NoSuchDevice when only a pointer, the tolerance or the
\* accelerated fraction is wrong and the selector exceeds 2^devices.
C2_ViolationResult ==
  (pc = "done" /\ args.device # 0 /\ AnyViolation) =>
     /\ Untouched
     /\ result = IF ShapeViolated \/ args.device <= 2^devices
                    THEN kmcudaInvalidArguments ELSE kmcudaNoSuchDevice

C2_Witness ==
  /\ pc = "done" /\ args.device > 2^devices /\ ~ShapeViolated
  /\ NullPointer
  /\ result = kmcudaNoSuchDevice /\ Untouched

RECURSIVE Ascending(_)
Ascending(S) ==
  IF S = {} THEN <<>>
  ELSE LET m == Least(S) IN <<m>> \o Ascending(S \ {m})

\* the selected devices that activate, in ascending order
Resolved == Ascending(SelectorBits(args.device, 0) \cap live)

PastSetup == pc \notin {"check_args", "setup_devices"}

\* C7, as stated: for a non-zero selector and otherwise valid arguments the
\* device set is the ascending list of the selected devices that activate,
\* and NoSuchDevice is returned exactly when that list is empty.
C7_DeviceSetIsResolved ==
  (args.device # 0 /\ ~AnyViolation /\ PastSetup) =>
     /\ (result = kmcudaNoSuchDevice) <=> (Resolved = <<>>)
     /\ Resolved # <<>> => devs = Resolved
     /\ \A k \in 1..Len(devs) : devs[k] < devices

\* C7, amended: a selector above 2^devices is refused with NoSuchDevice before
\* any device is activated, even when one of its devices would activate; for
\* a selector of at most 2^devices the device set is the ascending list of
\* the selected devices that activate and NoSuchDevice is returned exactly
\* when that list is empty.  No id at or beyond the device count enters the
\* device set.
C7_DeviceSetWithinRange ==
  (args.device # 0 /\ ~AnyViolation /\ PastSetup) =>
     /\ IF args.device > 2^devices
          THEN pc = "done" /\ result = kmcudaNoSuchDevice /\ Untouched
          ELSE /\ devs = Resolved
               /\ (result = kmcudaNoSuchDevice) <=> (Resolved = <<>>)
     /\ \A k \in 1..Len(devs) : devs[k] < devices

C7_Witness ==
  /\ args.device # 0 /\ ~AnyViolation /\ pc = "done" /\ result = kmcudaSuccess
  /\ devs = Resolved
  /\ SelectorBits(args.device, 0) \ live # {}

(***************************************************************************)
(* Properties of memory planning and copy-out (under Spec).                *)
(***************************************************************************)
Planned == pc \in {"plan_scratch", "plan_yinyang", "setup", "init_centroids",
                   "refine", "materialize"}

OnePerDevice(list, caller) ==
  /\ Len(list) = Len(devs)
  /\ \A k \in 1..Len(list) :
       /\ list[k].dev = devs[k]
       /\ IF devs[k] = args.device_ptrs
            THEN ~list[k].owned /\ list[k].ptr = caller
            ELSE list[k].owned /\ list[k].ptr = "cudaMalloc"

\* C5, as stated: after memory planning the sample, centroid and assignment
\* lists each hold one buffer per participating device, in device-set order;
\* the buffer of the device the location hint names is the caller's pointer,
\* every other one an owned allocation.
C5_OneBufferPerDevice ==
  Planned =>
     /\ OnePerDevice(bufs["device_samples"], "samples")
     /\ OnePerDevice(bufs["device_centroids"], "centroids")
     /\ OnePerDevice(bufs["device_assignments"], "assignments")

\* C6, as stated: with yinyang_groups >= 1, the group-centroid buffers alias
\* the passed-flags buffers, one per device, not owned, and fit inside them
\* when yinyang_groups * features_size + clusters_size + yinyang_groups <=
\* samples_size (as numbers); otherwise each device gets one owned allocation
\* of yinyang_groups * features_size elements.  The size the code computes is
\* that product.
C6_GroupCentroidReuse ==
  (pc = "setup" /\ yinyang_groups >= 1) =>
     LET product == WMul16(U(yinyang_groups), args.features_size)
         needed == WAdd(product, WAdd(args.clusters_size, U(yinyang_groups)))
         list == bufs["device_centroids_yy"]
         passed == bufs["device_passed_yy"]
     IN  /\ Len(list) = Len(devs)
         /\ \A k \in 1..Len(list) :
              /\ list[k].size = product
              /\ list[k].dev = devs[k]
              /\ IF WLe(needed, args.samples_size)
                   THEN /\ ~list[k].owned
                        /\ list[k].ptr = "device_passed_yy"
                        /\ WLe(product, passed[k].size)
                   ELSE list[k].owned /\ list[k].ptr = "cudaMalloc"

Aliased(b, caller) == ~b.owned /\ b.ptr = caller
PrimaryAliased(name, caller) == Aliased(bufs[name][1], caller)
SomeAliased(name, caller) ==
  \E k \in 1..Len(bufs[name]) : Aliased(bufs[name][k], caller)

\* the transfers the step adds
Added == SubSeq(transfers', Len(transfers) + 1, Len(transfers'))
AddedTo(dst) == {k \in 1..Len(Added) : Added[k].dst = dst}

\* the one transfer out of the primary device's buffer
CopiesOut(k, dst, src, count) ==
  /\ Added[k].src = src /\ Added[k].srcDev = devs[1] /\ Added[k].count = count
  /\ Added[k].dstDev = args.device_ptrs
  /\ Added[k].op = IF args.device_ptrs < 0 THEN "cudaMemcpyDeviceToHost"
                   ELSE "cudaMemcpyPeer"

\* what lines 258-277 must do given which outputs are already in place
\* (a failed centroid transfer ends the call before the assignments' one)
CopyOutRule(centroidsInPlace, assignmentsInPlace) ==
  /\ centroidsInPlace <=> AddedTo("centroids") = {}
  /\ ~centroidsInPlace =>
       /\ Cardinality(AddedTo("centroids")) = 1
       /\ \A k \in AddedTo("centroids") :
            CopiesOut(k, "centroids", "device_centroids",
                      WMul16(args.clusters_size, args.features_size))
  /\ assignmentsInPlace => AddedTo("assignments") = {}
  /\ ~assignmentsInPlace =>
       /\ \/ Cardinality(AddedTo("assignments")) = 1
          \/ \E k \in AddedTo("centroids") : ~Added[k].ok
       /\ \A k \in AddedTo("assignments") :
            CopiesOut(k, "assignments", "device_assignments", args.samples_size)
  /\ result' = IF \A k \in 1..Len(Added) : Added[k].ok
                 THEN kmcudaSuccess ELSE kmcudaMemoryCopyError

Finished == spc \in {"selected", "assert_failed"}

\* the index a full linear scan from 0 selects: the smallest one whose
\* inclusive prefix sum reaches T = (rnd / RandMax) * dist_sum
NaiveIndex ==
  Least({i \in 0..(samples_size - 1) :
           ~below(SumTo(host_dists, i + 1), rnd, dist_sum)})

\* C3, as stated, for the draws with T > 0 and choice_approx < samples_size
\* (T = 0 is the case of C4, choice_approx = samples_size that of C10): the
\* row copied is the one a full linear scan selects, in every branch.
C3_SearchIsNaiveScan ==
  (Finished /\ rnd * dist_sum > 0 /\ choice_approx < samples_size) =>
     spc = "selected" /\ row = U(NaiveIndex)

\* C4, as stated: when the total distance is 0 the step selects sample row 0
\* and assert(j > 0) holds.
C4_ZeroTotalSelectsRowZero ==
  (Finished /\ dist_sum = 0) => spc = "selected" /\ row = U(0)

\* C10, as stated: every index used to read host_dists is below samples_size,
\* and so is the sample row selected.
C10_ReadsInsideBuffers ==
  /\ \A k \in reads : k < samples_size
  /\ spc = "selected" => WLt(row, U(samples_size))

(***************************************************************************)
(* Property of the copy queue (under SpecAsync).                           *)
(***************************************************************************)
\* C9, as stated: no region is read while a copy into it is in flight (the
\* sample upload before the samples are read, centroid rows 0..i-1 before
\* the distance-sum call of step i, every centroid row before
\* kmeans_init_centroids returns), and the uniform-random loop never has
\* more than 999 asynchronous copies issued since the last blocking one.
C9_CopiesLandBeforeReads ==
  /\ hazards = {}
  /\ method = "kmcudaInitMethodRandom" => unsynced <= THROTTLE - 1

====
